---- MODULE Spec2Model ----
(***************************************************************************)
(* Navigation model of the Expo Router application: a root Stack that      *)
(* nests the (tabs) and (drawer) groups and two standalone screens.  The   *)
(* layouts only declare configuration; the state machine is the one the    *)
(* navigators run on that configuration (route resolution, push/pop of the *)
(* root stack, tab and drawer focus, rendering of screens and tab icons).  *)
(***************************************************************************)
EXTENDS Integers, Sequences, FiniteSets, TLC

(* ------------------------------ bounds --------------------------------- *)

\* Longest back-history of the root stack that is explored.
MaxStack == 3

\* Icon sizes handed to the icon functions: IconSize - SizeSpread .. IconSize + SizeSpread.
SizeSpread == 1

\* Most events the host delivers in one run of the event loop.
MaxEvents == 3

(* ------------------------------- state --------------------------------- *)

VARIABLES
    routes,   \* the root stack: its entries in visit order, the last one visible
    view,     \* what the visible entry renders
    icons,    \* the tab bar's icons, as last rendered
    theme,    \* the tints and the size the tab bar passes to the icon functions
    event,    \* the last event handled
    pending,  \* the events delivered by the host and not handled yet, oldest first
    log       \* every event delivered so far, in delivery order

vars == <<routes, view, icons, theme, event, pending, log>>

(* ------------------------- generic helpers ----------------------------- *)

Range(s) == {s[i] : i \in DOMAIN s}

Last(s) == s[Len(s)]

Front(s) == SubSeq(s, 1, Len(s) - 1)

\* Options objects are finite maps from option name to value; {} has no key.
NoOptions == <<>>

HasOption(o, k) == k \in DOMAIN o

RECURSIVE RouteName(_)
\* The route name of a file path: its segments joined by "/".
RouteName(segs) ==
    IF Len(segs) = 1 THEN segs[1] ELSE segs[1] \o "/" \o RouteName(Tail(segs))

(* ----------------------- src/app/_layout.tsx --------------------------- *)

\* <Stack screenOptions={{ headerShown: false }}>
StackScreenOptions == [headerShown |-> FALSE]

\* The <Stack.Screen> children of RootLayout, in declaration order.
StackScreens ==
    << [name |-> <<"(tabs)">>,         options |-> NoOptions],
       [name |-> <<"index">>,          options |-> [title |-> "Home"]],
       [name |-> <<"about", "index">>, options |-> [title |-> "About Us"]] >>

(* -------------------- src/app/(tabs)/_layout.tsx ----------------------- *)

\* TabRoots with the aboutus screen declared first.
TabScreensReordered ==
    << [name |-> "aboutus", title |-> "About us"],
       [name |-> "index",   title |-> "Home"],
       [name |-> "profile", title |-> "Profile"] >>

\* The <Tabs.Screen> children of TabRoots, in declaration order.
TabScreens ==
    << [name |-> "index",   title |-> "Home"],
       [name |-> "aboutus", title |-> "About us"],
       [name |-> "profile", title |-> "Profile"] >>

TabNames == {TabScreens[i].name : i \in DOMAIN TabScreens}

(* ------------------- src/app/(drawer)/_layout.tsx ---------------------- *)

\* DrawerRootLayout without the options of its second screen: the drawer then
\* titles the screen by its route name.
DrawerScreensUntitled ==
    << [name |-> "index",   title |-> "My home page"],
       [name |-> "setting", title |-> "setting"] >>

\* The <Drawer.Screen> children of DrawerRootLayout, in declaration order.
DrawerScreens ==
    << [name |-> "index",   title |-> "My home page"],
       [name |-> "setting", title |-> "Settings"] >>

DrawerNames == {DrawerScreens[i].name : i \in DOMAIN DrawerScreens}

\* A drawer layout that wraps the Drawer in a plain View: no gesture root.
DrawerRootLayoutNoGestureRoot ==
    [type |-> "View", flex |-> 1,
     child |-> [type |-> "Drawer", screens |-> DrawerScreens]]

\* The component tree DrawerRootLayout returns: the Drawer inside a
\* GestureHandlerRootView.
DrawerRootLayout ==
    [type |-> "GestureHandlerRootView", flex |-> 1,
     child |-> [type |-> "Drawer", screens |-> DrawerScreens]]

(* ------------------------- file-based routing -------------------------- *)

\* A directory named in parentheses is a group: it adds no URL segment.
Groups == {"(tabs)", "(drawer)"}

\* The layout file of each group directory of app/.
GroupLayouts == [g \in Groups |-> IF g = "(tabs)" THEN TabScreens ELSE DrawerScreens]

\* The screen files of app/: the standalone screens and the screens of each group.
AppFiles ==
    {<<"index">>, <<"about", "index">>}
        \cup {<<"(tabs)", t>> : t \in TabNames}
        \cup {<<"(drawer)", d>> : d \in DrawerNames}

\* The child of app/ a file belongs to: its group directory, or the file itself.
RootChild(file) == IF file[1] \in Groups THEN <<file[1]>> ELSE file

IsDeclared(child) == \E i \in DOMAIN StackScreens : StackScreens[i].name = child

RECURSIVE SetToSeq(_)
SetToSeq(S) ==
    IF S = {} THEN <<>>
    ELSE LET x == CHOOSE y \in S : TRUE IN <<x>> \o SetToSeq(S \ {x})

\* The route expo-router adds to the root navigator for URLs no file matches.
\* app/ has no +not-found file, so the route shows the framework's own screen.
NotFoundRoute == "+not-found"

\* A root stack that mounts only the routes RootLayout declares.
RootRouteNamesDeclaredOnly ==
    [i \in DOMAIN StackScreens |-> RouteName(StackScreens[i].name)]

\* The root stack's route names: the declared <Stack.Screen> names in order,
\* then every other child of app/.  RootLayout declares three screens and
\* leaves (drawer) out, but routes are created from the file structure
\* ("Routes are automatically created based on file structure"): the
\* <Stack.Screen> elements order and configure routes, they do not select them.
RootRouteNames ==
    [i \in DOMAIN StackScreens |-> RouteName(StackScreens[i].name)]
        \o SetToSeq({RouteName(RootChild(f)) :
                        f \in {g \in AppFiles : ~IsDeclared(RootChild(g))}})
        \o <<NotFoundRoute>>

\* Options that replace the navigator's screenOptions instead of extending them.
ReplaceOptions(base, own) == IF DOMAIN own = {} THEN base ELSE own

\* screenOptions overridden, key by key, by a screen's own options.
MergeOptions(base, own) ==
    [k \in (DOMAIN base) \cup (DOMAIN own) |->
        IF k \in DOMAIN own THEN own[k] ELSE base[k]]

\* The options of a root stack entry: screenOptions merged with the options
\* of its own <Stack.Screen>, when it has one.
ScreenOptions(name) ==
    LET own == {i \in DOMAIN StackScreens : RouteName(StackScreens[i].name) = name}
    IN  IF own = {} THEN StackScreenOptions
        ELSE MergeOptions(StackScreenOptions, StackScreens[CHOOSE i \in own : TRUE].options)

\* The URL path of a file: its segments without groups and without a trailing index.
UrlPath(file) == SelectSeq(file, LAMBDA s : s \notin Groups /\ s # "index")

\* The group a stack entry name denotes, "" for a standalone screen.
GroupOf(name) == IF name \in Groups THEN name ELSE ""

\* A resolution that takes the match of the root child declared first.
MatchFileFirstDeclared(url, group) ==
    LET all   == {f \in AppFiles : UrlPath(f) = url}
        at(i) == {f \in all : RouteName(RootChild(f)) = RootRouteNames[i]}
        hits  == {i \in DOMAIN RootRouteNames : at(i) # {}}
    IN  IF hits = {} THEN {}
        ELSE at(CHOOSE i \in hits : \A j \in hits : i <= j)

\* The files a URL matches.  Several files may match (every index matches "/"):
\* a file of the group in focus wins, then a file outside every group.
MatchFile(url, group) ==
    LET all    == {f \in AppFiles : UrlPath(f) = url}
        inGrp  == {f \in all : f[1] = group}
        plain  == {f \in all : f[1] \notin Groups}
    IN  IF inGrp # {} THEN inGrp
        ELSE IF plain # {} THEN plain
        ELSE all

\* The stack entry that shows a file: the root child, the screen in focus
\* inside it ("" for a standalone screen) and whether its drawer is open.
EntryOf(file) ==
    IF file[1] \in Groups
    THEN [name |-> file[1], screen |-> file[2], drawerOpen |-> FALSE]
    ELSE [name |-> RouteName(file), screen |-> "", drawerOpen |-> FALSE]

\* The stack entry for a URL that no file matches.
UnmatchedEntry == [name |-> NotFoundRoute, screen |-> "", drawerOpen |-> FALSE]

\* The file a stack entry shows.
FileOf(entry) ==
    CHOOSE f \in AppFiles :
        EntryOf(f).name = entry.name /\ EntryOf(f).screen = entry.screen

(* ------------------------------ screens -------------------------------- *)

NoLinks == <<>>

\* An initial screen whose link names the tab screen instead.
IndexLinkToAboutUs ==
    [texts |-> <<"Hello Mubarak Ansari">>,
     links |-> << [label |-> "Go to About", href |-> <<"aboutus">>] >>]

\* An initial screen with a second link, into the tab group.
IndexWithTabsLink ==
    [texts |-> <<"Hello Mubarak Ansari">>,
     links |-> << [label |-> "Go to About", href |-> <<"about">>],
                  [label |-> "Go to Tabs",  href |-> <<"profile">>] >>]

\* The initial screen, app/index.tsx.
Index ==
    [texts |-> <<"Hello Mubarak Ansari">>,
     links |-> << [label |-> "Go to About", href |-> <<"about">>] >>]

\* The standalone about screen, app/about/index.tsx: a label and no link.
About == [texts |-> <<"About">>, links |-> NoLinks]

\* Tab screens that show their tab's title instead of their own label.
TabScreenLabelFromTitle(t) ==
    TabScreens[CHOOSE i \in DOMAIN TabScreens : TabScreens[i].name = t].title

\* The tab screens app/(tabs)/index.tsx, aboutus.tsx and profile.tsx.
TabScreenLabel(t) ==
    CASE t = "index"   -> "Home"
      [] t = "aboutus" -> "AboutUs"
      [] t = "profile" -> "Profile"

\* The drawer screens app/(drawer)/index.tsx and setting.tsx.
DrawerScreenLabel(d) ==
    CASE d = "index"   -> "Home"
      [] d = "setting" -> "setting"

\* What the screen component of a file renders.
ScreenOf(file) ==
    CASE file = <<"index">>          -> Index
      [] file = <<"about", "index">> -> About
      [] file[1] = "(tabs)"          -> [texts |-> <<TabScreenLabel(file[2])>>, links |-> NoLinks]
      [] file[1] = "(drawer)"        -> [texts |-> <<DrawerScreenLabel(file[2])>>, links |-> NoLinks]

\* An unmatched URL that raises an error for the app to handle.
UnmatchedThrows == [texts |-> <<"Error">>, links |-> NoLinks, kind |-> "error"]

\* What is shown for an unmatched URL: no layout or screen of the app handles
\* it (no +not-found file, no error boundary, no try/catch), so the framework
\* shows its default screen; the way out of it is the back action.
Unmatched == [texts |-> <<"Unmatched Route">>, links |-> NoLinks, kind |-> "default"]

\* What a stack entry renders: the screen component of its file, or the
\* framework's default for the not-found route.
ScreenFor(entry) ==
    IF entry.name = NotFoundRoute THEN Unmatched
    ELSE LET scr == ScreenOf(FileOf(entry))
         IN  [texts |-> scr.texts, links |-> scr.links, kind |-> "screen"]

(* ----------------------------- tab icons ------------------------------- *)

\* size={28} of every <FontAwesome> glyph.
IconSize == 28

\* <FontAwesome size={28} name=... color={color} />
FontAwesome(name, color) ==
    [type |-> "FontAwesome", size |-> IconSize, name |-> name, color |-> color]

\* tabBarIcon of the index tab: ({ color }) => <FontAwesome .../>
HomeIcon(color, size) == FontAwesome("home", color)

\* An aboutus icon whose container follows the size it is handed.
AboutUsIconSized(color, size) ==
    [type |-> "View",
     style |-> [width |-> 2 * size, height |-> 2 * size, borderRadius |-> 50,
                backgroundColor |-> "white", bottom |-> 15,
                justifyContent |-> "center", alignItems |-> "center",
                borderColor |-> "gray", borderWidth |-> "hairlineWidth"],
     child |-> FontAwesome("globe", color)]

\* tabBarIcon of the aboutus tab: ({ color, size }) => <View style=...><FontAwesome .../></View>
AboutUsIcon(color, size) ==
    [type |-> "View",
     style |-> [width |-> 60, height |-> 60, borderRadius |-> 50,
                backgroundColor |-> "white", bottom |-> 15,
                justifyContent |-> "center", alignItems |-> "center",
                borderColor |-> "gray", borderWidth |-> "hairlineWidth"],
     child |-> FontAwesome("globe", color)]

\* A profile icon drawn at the size the tab bar suggests.
ProfileIconSized(color, size) ==
    [type |-> "FontAwesome", size |-> size, name |-> "user-circle-o", color |-> color]

\* tabBarIcon of the profile tab: ({ color }) => <FontAwesome .../>
ProfileIcon(color, size) == FontAwesome("user-circle-o", color)

\* The tabBarIcon option of a tab, applied to the props the tab bar passes.
TabBarIconOption(t, color, size) ==
    CASE t = "index"   -> HomeIcon(color, size)
      [] t = "aboutus" -> AboutUsIcon(color, size)
      [] t = "profile" -> ProfileIcon(color, size)

\* Icon functions that keep state between renders: a tint remembered from the
\* render before replaces the one passed in.
TabBarIconImpure(t, color, size) ==
    TabBarIconOption(t, IF event = "render" THEN "stale" ELSE color, size)

\* What the tab bar gets when it calls a tab's icon function.
TabBarIcon(t, color, size) == TabBarIconOption(t, color, size)

\* The <FontAwesome> element of an icon: the node itself, or the child of the
\* <View> that wraps it.
GlyphOf(node) == IF node.type = "View" THEN node.child ELSE node

\* name= of the <FontAwesome> element of each tab.
GlyphName(t) ==
    CASE t = "index"   -> "home"
      [] t = "aboutus" -> "globe"
      [] t = "profile" -> "user-circle-o"

(* --------------------------- inputs and state -------------------------- *)

\* Tint colors a theme may hand to the icon functions.
Colors == {"blue", "gray", "black"}

Sizes == (IconSize - SizeSpread)..(IconSize + SizeSpread)

\* A theme: the tint of the focused tab, of the other tabs, and the icon size.
Themes == [active : Colors, inactive : Colors, size : Sizes]

\* The URLs that address a screen file.
Urls == {UrlPath(f) : f \in AppFiles}

\* URLs that address no file of app/.
BrokenUrls == {<<"nowhere">>}

Top(r) == Last(r)

(* ------------------------------ rendering ------------------------------ *)

\* The items a navigator shows for the entry: the tab bar's or the drawer's.
NavigatorItems(entry) ==
    IF entry.name \in Groups THEN GroupLayouts[entry.name] ELSE <<>>

\* The stack header is shown unless the entry's options switch it off.
HeaderShown(options) ==
    IF HasOption(options, "headerShown") THEN options.headerShown ELSE TRUE

\* What is on screen for a root stack: the visible entry's screen component,
\* the stack header per the entry's options, and its navigator's items.
Render(r) ==
    LET top == Top(r)
        scr == ScreenFor(top)
    IN  [route       |-> top.name,
         kind        |-> scr.kind,
         screen      |-> top.screen,
         texts       |-> scr.texts,
         links       |-> scr.links,
         headerShown |-> HeaderShown(ScreenOptions(top.name)),
         items       |-> NavigatorItems(top),
         wrapper     |-> IF top.name = "(drawer)" THEN DrawerRootLayout.type ELSE ""]

NotRendered == [rendered |-> FALSE]

\* The tab bar calls every tab's icon function with { focused, color, size },
\* the color being the focused or the unfocused tint; no tab bar is mounted
\* unless the tab group is visible.
RenderIcons(r, th) ==
    [t \in TabNames |->
        IF Top(r).name # "(tabs)" THEN NotRendered
        ELSE LET c == IF Top(r).screen = t THEN th.active ELSE th.inactive
             IN  [rendered |-> TRUE,
                  props    |-> [focused |-> Top(r).screen = t, color |-> c, size |-> th.size],
                  out      |-> TabBarIcon(t, c, th.size)]]

(* ----------------------- navigation operations ------------------------- *)

\* The first screen a group declares: where back leads inside the group.
FirstScreen(group) == GroupLayouts[group][1].name

SetTop(r, e) == [r EXCEPT ![Len(r)] = e]

\* The entry a URL leads to from the visible entry: the entry of the file it
\* matches, or the not-found entry when it matches none.
Target(r, url) ==
    LET found == MatchFile(url, GroupOf(Top(r).name))
    IN  IF found = {} THEN UnmatchedEntry ELSE EntryOf(CHOOSE f \in found : TRUE)

CanNavigate(r, url) ==
    /\ Target(r, url).name \in Range(RootRouteNames)
    /\ \/ Len(r) < MaxStack
       \/ Target(r, url).name = Top(r).name

\* A navigation that replaces the visible entry instead of pushing.
NavigateReplace(r, url) == SetTop(r, Target(r, url))

\* Navigating to a URL: inside the visible entry it changes the screen in
\* focus; otherwise it pushes the entry the URL leads to.
Navigate(r, url) ==
    LET e == Target(r, url)
    IN  IF e.name = Top(r).name THEN SetTop(r, e) ELSE Append(r, e)

\* <Link href=...>: the links of the visible screen.
LinksOf(r) == ScreenFor(Top(r)).links

CanPressLink(r, k) == k \in DOMAIN LinksOf(r) /\ CanNavigate(r, LinksOf(r)[k].href)

LinkPressed(r, k) == Navigate(r, LinksOf(r)[k].href)

CanGoBack(r) ==
    \/ Top(r).drawerOpen
    \/ Top(r).name \in Groups /\ Top(r).screen # FirstScreen(Top(r).name)
    \/ Len(r) > 1

\* Back: closes an open drawer, else returns a group to its first screen,
\* else pops the root stack.
WentBack(r) ==
    IF Top(r).drawerOpen THEN SetTop(r, [Top(r) EXCEPT !.drawerOpen = FALSE])
    ELSE IF Top(r).name \in Groups /\ Top(r).screen # FirstScreen(Top(r).name)
    THEN SetTop(r, [Top(r) EXCEPT !.screen = FirstScreen(Top(r).name)])
    ELSE Front(r)

CanPressTab(r, t) == Top(r).name = "(tabs)" /\ t \in TabNames

\* A tab press that sends a press on the tab in focus back to the first tab.
TabPressedResetting(r, t) ==
    SetTop(r, [Top(r) EXCEPT !.screen = IF t = Top(r).screen THEN FirstScreen("(tabs)") ELSE t])

TabPressed(r, t) == SetTop(r, [Top(r) EXCEPT !.screen = t])

CanOpenDrawer(r) == Top(r).name = "(drawer)" /\ ~Top(r).drawerOpen

DrawerOpened(r) == SetTop(r, [Top(r) EXCEPT !.drawerOpen = TRUE])

\* A swipe from the edge registers only inside a gesture root; nothing checks
\* for the root, a swipe outside one is simply not recognised.
InGestureScope(entry) ==
    entry.name = "(drawer)" /\ DrawerRootLayout.type = "GestureHandlerRootView"

CanSwipeDrawer(r) == CanOpenDrawer(r) /\ InGestureScope(Top(r))

CanCloseDrawer(r) == Top(r).name = "(drawer)" /\ Top(r).drawerOpen

DrawerClosed(r) == SetTop(r, [Top(r) EXCEPT !.drawerOpen = FALSE])

CanPressDrawerItem(r, d) ==
    Top(r).name = "(drawer)" /\ Top(r).drawerOpen /\ d \in DrawerNames

DrawerItemPressed(r, d) ==
    SetTop(r, [Top(r) EXCEPT !.screen = d, !.drawerOpen = FALSE])

\* The stacks one tap, gesture or link activation leads to.
TapSuccessors(r) ==
    {LinkPressed(r, k) : k \in {j \in DOMAIN LinksOf(r) : CanPressLink(r, j)}}
        \cup (IF CanGoBack(r) THEN {WentBack(r)} ELSE {})
        \cup {TabPressed(r, t) : t \in {u \in TabNames : CanPressTab(r, u)}}
        \cup (IF CanOpenDrawer(r) THEN {DrawerOpened(r)} ELSE {})
        \cup (IF CanSwipeDrawer(r) THEN {DrawerOpened(r)} ELSE {})
        \cup (IF CanCloseDrawer(r) THEN {DrawerClosed(r)} ELSE {})
        \cup {DrawerItemPressed(r, d) : d \in {u \in DrawerNames : CanPressDrawerItem(r, u)}}

RECURSIVE Closure(_)
Closure(S) ==
    LET more == S \cup UNION {TapSuccessors(r) : r \in S}
    IN  IF more = S THEN S ELSE Closure(more)

\* The stacks some sequence of taps, gestures and link activations leads to.
TapReachable(r) == Closure({r})

\* The stacks an opened URL leads to, URLs that match no file included.
UrlSuccessors(r) ==
    {Navigate(r, url) : url \in {u \in Urls \cup BrokenUrls : CanNavigate(r, u)}}

(* ------------------------------ the app -------------------------------- *)

\* The app loads at the URL "/".
InitialRoutes == <<EntryOf(CHOOSE f \in MatchFile(<<>>, "") : TRUE)>>

Init ==
    /\ event = "load"
    /\ routes = InitialRoutes
    /\ theme \in Themes
    /\ view = Render(routes)
    /\ icons = RenderIcons(routes, theme)
    /\ pending = <<>>
    /\ log = <<>>

\* Every navigation event ends with the re-render of what it changed.
Handled(r, e) ==
    /\ routes' = r
    /\ view' = Render(r)
    /\ icons' = RenderIcons(r, theme)
    /\ event' = e
    /\ UNCHANGED <<theme, pending, log>>

PressLink ==
    \E k \in DOMAIN LinksOf(routes) :
        CanPressLink(routes, k) /\ Handled(LinkPressed(routes, k), "link")

GoBack == CanGoBack(routes) /\ Handled(WentBack(routes), "back")

PressTab == \E t \in TabNames : CanPressTab(routes, t) /\ Handled(TabPressed(routes, t), "tabPress")

OpenDrawer == CanOpenDrawer(routes) /\ Handled(DrawerOpened(routes), "drawerOpen")

SwipeDrawer == CanSwipeDrawer(routes) /\ Handled(DrawerOpened(routes), "swipe")

CloseDrawer == CanCloseDrawer(routes) /\ Handled(DrawerClosed(routes), "drawerClose")

PressDrawerItem ==
    \E d \in DrawerNames :
        CanPressDrawerItem(routes, d) /\ Handled(DrawerItemPressed(routes, d), "drawerItem")

\* A deep link: the framework is handed a URL from outside the app.
OpenUrl ==
    \E url \in Urls \cup BrokenUrls :
        CanNavigate(routes, url) /\ Handled(Navigate(routes, url), "url")

\* A render that navigates: a layout that redirects to the initial screen
\* whenever it is rendered.
RerenderRedirecting ==
    /\ routes' = InitialRoutes
    /\ view' = Render(routes')
    /\ icons' = RenderIcons(routes', theme)
    /\ event' = "render"
    /\ UNCHANGED <<theme, pending, log>>

\* The host re-renders the layouts, the visible screen and the tab icons.
Rerender ==
    /\ view' = Render(routes)
    /\ icons' = RenderIcons(routes, theme)
    /\ event' = "render"
    /\ UNCHANGED <<routes, theme, pending, log>>

\* The host's theme changes: the tab bar re-renders with the new tints.
ChangeTheme ==
    \E th \in Themes :
        /\ th # theme
        /\ theme' = th
        /\ icons' = RenderIcons(routes, th)
        /\ view' = Render(routes)
        /\ event' = "theme"
        /\ UNCHANGED <<routes, pending, log>>

Next ==
    \/ PressLink
    \/ GoBack
    \/ PressTab
    \/ OpenDrawer
    \/ SwipeDrawer
    \/ CloseDrawer
    \/ PressDrawerItem
    \/ OpenUrl
    \/ Rerender
    \/ ChangeTheme

Spec == Init /\ [][Next]_vars

\* The events that come from the user: taps, gestures, link activations.
UserEvents ==
    {"link", "back", "tabPress", "drawerOpen", "swipe", "drawerClose", "drawerItem", "url"}

(* --------------------------- the event loop ---------------------------- *)

\* What the host can deliver: the kind of event and what it was aimed at (the
\* href of the link pressed, the tab or drawer item pressed, the URL opened).
Events ==
    {[type |-> "link", arg |-> Index.links[k].href] : k \in DOMAIN Index.links}
        \cup {[type |-> ty, arg |-> <<>>] : ty \in {"back", "drawerOpen", "swipe", "drawerClose"}}
        \cup {[type |-> "tabPress", arg |-> <<t>>] : t \in TabNames}
        \cup {[type |-> "drawerItem", arg |-> <<d>>] : d \in DrawerNames}
        \cup {[type |-> "url", arg |-> u] : u \in Urls \cup BrokenUrls}

\* Handling one event on a stack: the operation it triggers, or nothing when
\* what it was aimed at is no longer on screen.
Apply(r, ev) ==
    CASE ev.type = "link" ->
            LET ks == {k \in DOMAIN LinksOf(r) :
                          LinksOf(r)[k].href = ev.arg /\ CanPressLink(r, k)}
            IN  IF ks = {} THEN r ELSE LinkPressed(r, CHOOSE k \in ks : TRUE)
      [] ev.type = "back" -> IF CanGoBack(r) THEN WentBack(r) ELSE r
      [] ev.type = "tabPress" ->
            IF CanPressTab(r, ev.arg[1]) THEN TabPressed(r, ev.arg[1]) ELSE r
      [] ev.type = "drawerOpen" -> IF CanOpenDrawer(r) THEN DrawerOpened(r) ELSE r
      [] ev.type = "swipe" -> IF CanSwipeDrawer(r) THEN DrawerOpened(r) ELSE r
      [] ev.type = "drawerClose" -> IF CanCloseDrawer(r) THEN DrawerClosed(r) ELSE r
      [] ev.type = "drawerItem" ->
            IF CanPressDrawerItem(r, ev.arg[1]) THEN DrawerItemPressed(r, ev.arg[1]) ELSE r
      [] ev.type = "url" -> IF CanNavigate(r, ev.arg) THEN Navigate(r, ev.arg) ELSE r

\* Handling a sequence of events one after the other, in order.
RECURSIVE ApplyAll(_, _)
ApplyAll(r, evs) ==
    IF evs = <<>> THEN r ELSE ApplyAll(Apply(r, Head(evs)), Tail(evs))

\* The tints of the tab bar when no theme overrides them.
DefaultTheme == [active |-> "blue", inactive |-> "gray", size |-> IconSize]

LoopInit ==
    /\ event = "load"
    /\ routes = InitialRoutes
    /\ theme = DefaultTheme
    /\ view = Render(routes)
    /\ icons = RenderIcons(routes, theme)
    /\ pending = <<>>
    /\ log = <<>>

\* The host delivers an event: it joins the queue behind those not yet handled.
Deliver ==
    \E ev \in Events :
        /\ Len(log) < MaxEvents
        /\ pending' = Append(pending, ev)
        /\ log' = Append(log, ev)
        /\ UNCHANGED <<routes, view, icons, theme, event>>

\* An event loop that takes the newest event first.
HandleEventNewestFirst ==
    /\ pending # <<>>
    /\ routes' = Apply(routes, Last(pending))
    /\ view' = Render(routes')
    /\ icons' = RenderIcons(routes', theme)
    /\ event' = Last(pending).type
    /\ pending' = Front(pending)
    /\ UNCHANGED <<theme, log>>

\* The event loop takes the oldest event and runs its handler to the end: the
\* navigation update and the re-render it causes, in one step.  No handler
\* awaits, waits for another event, or re-queues its event.
HandleEvent ==
    /\ pending # <<>>
    /\ routes' = Apply(routes, Head(pending))
    /\ view' = Render(routes')
    /\ icons' = RenderIcons(routes', theme)
    /\ event' = Head(pending).type
    /\ pending' = Tail(pending)
    /\ UNCHANGED <<theme, log>>

LoopNext ==
    \/ Deliver
    \/ HandleEvent

LoopSpec == LoopInit /\ [][LoopNext]_vars

TypeOK ==
    /\ Len(routes) \in 1..MaxStack
    /\ \A i \in DOMAIN routes : routes[i].name \in Range(RootRouteNames)
    /\ theme \in Themes

(* ------------------------------ properties ----------------------------- *)

\* C1: from the state in which the initial screen (root index) is visible,
\* activating its link pushes the standalone about screen (about/index) and
\* makes it the visible route; it never shows another route, in particular
\* not the tab group's aboutus screen.
C1_LinkShowsAbout ==
    [][(view.route = "index" /\ event' = "link")
          => /\ routes' = Append(routes, EntryOf(<<"about", "index">>))
             /\ view'.route = "about/index"
             /\ view'.route # "(tabs)"
             /\ view'.screen # "aboutus"]_vars

C1_Witness ==
    /\ event = "link"
    /\ Len(routes) > 1
    /\ routes[Len(routes) - 1].name = "index"
    /\ view.route = "about/index"

\* C2: right after the app has loaded, the visible route is the root index
\* screen, which shows the text "Hello Mubarak Ansari" and one link labelled
\* "Go to About"; the (tabs) group, declared before index and holding an index
\* screen of its own, is not what is shown.
C2_LoadsInitialScreen ==
    event = "load" =>
        /\ routes = <<EntryOf(<<"index">>)>>
        /\ view.route = "index"
        /\ view.texts = <<"Hello Mubarak Ansari">>
        /\ [k \in DOMAIN view.links |-> view.links[k].label] = <<"Go to About">>

C2_Witness ==
    /\ event = "load"
    /\ view.route = "index"
    /\ RootRouteNames[1] = "(tabs)"
    /\ <<"(tabs)", "index">> \in AppFiles
    /\ UrlPath(<<"(tabs)", "index">>) = UrlPath(<<"index">>)

\* C3: whenever a tab of the tab group is the visible screen (in particular
\* right after that tab was pressed), the only text the screen shows is the
\* tab's fixed label: "Home" for index, "AboutUs" for aboutus, "Profile" for
\* profile, whatever the tab's title is.
C3_TabShowsItsLabel ==
    view.route = "(tabs)" =>
        /\ view.screen = Top(routes).screen
        /\ view.screen \in {"index", "aboutus", "profile"}
        /\ view.screen = "index"   => view.texts = <<"Home">>
        /\ view.screen = "aboutus" => view.texts = <<"AboutUs">>
        /\ view.screen = "profile" => view.texts = <<"Profile">>

C3_Witness ==
    /\ event = "tabPress"
    /\ view.route = "(tabs)"
    /\ view.screen = "aboutus"
    /\ view.texts = <<"AboutUs">>
    /\ view.items[2].title = "About us"

\* C4: whenever the drawer group is mounted, its drawer lists exactly two
\* destinations, index titled "My home page" and setting titled "Settings",
\* and each title differs from the route name.
C4_DrawerDestinations ==
    /\ DrawerRootLayout.child.screens =
           << [name |-> "index",   title |-> "My home page"],
              [name |-> "setting", title |-> "Settings"] >>
    /\ view.route = "(drawer)" =>
           /\ view.items = << [name |-> "index",   title |-> "My home page"],
                              [name |-> "setting", title |-> "Settings"] >>
           /\ \A i \in DOMAIN view.items : view.items[i].title # view.items[i].name
           /\ view.screen \in {view.items[i].name : i \in DOMAIN view.items}

C4_Witness ==
    /\ view.route = "(drawer)"
    /\ Top(routes).drawerOpen
    /\ view.screen = "setting"
    /\ Len(view.items) = 2

C6_TapsReachTabs ==
    event = "load" => \E r \in TapReachable(routes) : Top(r).name = "(tabs)"

\* C7: whatever tint and size the aboutus icon function is handed, it returns
\* its glyph inside a 60 by 60 container that is circular (border radius at
\* least half the side), raised by 15, white with a gray border.
C7_AboutUsContainer ==
    icons["aboutus"].rendered =>
        LET out == icons["aboutus"].out
        IN  /\ out.type = "View"
            /\ out.style.width = 60
            /\ out.style.height = 60
            /\ 2 * out.style.borderRadius >= out.style.width
            /\ out.style.bottom = 15
            /\ out.style.backgroundColor = "white"
            /\ out.style.borderColor = "gray"
            /\ out.child.type = "FontAwesome"

C7_Witness ==
    /\ icons["aboutus"].rendered
    /\ icons["aboutus"].props.size > IconSize
    /\ icons["aboutus"].props.color = theme.inactive
    /\ theme.inactive # theme.active
    /\ icons["aboutus"].out.style.width = 60

C9_TabDestinations ==
    view.route = "(tabs)" =>
        /\ view.items = << [name |-> "index",   title |-> "Home"],
                           [name |-> "aboutus", title |-> "About us"],
                           [name |-> "profile", title |-> "Profile"] >>
        /\ \A i, j \in DOMAIN view.items :
               view.items[i].name = view.items[j].name => i = j
        /\ icons[view.items[2].name].out.type = "View"
        /\ icons[view.items[1].name].out.type = "FontAwesome"
        /\ icons[view.items[3].name].out.type = "FontAwesome"

C9_Witness ==
    /\ view.route = "(tabs)"
    /\ Len(view.items) = 3
    /\ view.items[2].name = "aboutus"
    /\ icons["aboutus"].out.type = "View"

\* C10: in every reachable state the root stack shows no header for the
\* visible entry, and no entry's options (the titles "Home" and "About Us"
\* included) switch the header back on.
C10_NoStackHeader ==
    /\ ~view.headerShown
    /\ view.route = Top(routes).name
    /\ \A i \in DOMAIN RootRouteNames : ~HeaderShown(ScreenOptions(RootRouteNames[i]))

C10_Witness ==
    /\ view.route = "about/index"
    /\ HasOption(ScreenOptions(view.route), "title")
    /\ ScreenOptions(view.route).title = "About Us"
    /\ ~view.headerShown

\* C11: whenever the drawer group is mounted, its Drawer is the child of a
\* GestureHandlerRootView, and in every state that shows a drawer screen with
\* the drawer closed the swipe that opens it is enabled and opens it.
C11_DrawerInGestureScope ==
    view.route = "(drawer)" =>
        /\ view.wrapper = "GestureHandlerRootView"
        /\ DrawerRootLayout.child.type = "Drawer"
        /\ InGestureScope(Top(routes))
        /\ ~Top(routes).drawerOpen =>
               /\ CanSwipeDrawer(routes)
               /\ Top(DrawerOpened(routes)).drawerOpen
               /\ ENABLED SwipeDrawer

C11_Witness ==
    /\ event = "swipe"
    /\ view.route = "(drawer)"
    /\ view.wrapper = "GestureHandlerRootView"
    /\ Top(routes).drawerOpen

C14_OneActiveTab ==
    /\ [](view.route = "(tabs)" =>
            /\ Cardinality({t \in TabNames : icons[t].rendered /\ icons[t].props.focused}) = 1
            /\ icons[view.screen].props.focused
            /\ {view.items[i].name : i \in DOMAIN view.items} = {"index", "aboutus", "profile"}
            /\ Len(view.items) = 3
            /\ \A t \in TabNames :
                   /\ CanPressTab(routes, t)
                   /\ Render(TabPressed(routes, t)).screen = t
                   /\ t = view.screen => TabPressed(routes, t) = routes)
    /\ [][event' = "tabPress" =>
            /\ view'.route = "(tabs)"
            /\ Len(routes') = Len(routes)
            /\ Front(routes') = Front(routes)
            /\ {t \in TabNames : icons'[t].props.focused} = {view'.screen}
            /\ Len(view'.items) = 3
            /\ view'.screen = view.screen =>
                   (routes' = routes /\ view' = view /\ icons' = icons)]_vars

C14_Witness ==
    /\ event = "tabPress"
    /\ view.screen = "profile"
    /\ icons["profile"].props.focused
    /\ ~icons["index"].props.focused
    /\ ~icons["aboutus"].props.focused

\* C15: pressing the link on the initial screen pushes about/index on top of
\* it, and the back action that follows shows the initial screen again; every
\* step keeps the entries below the top in their order: it pushes one entry,
\* pops one, or changes the top entry in place.
C15_BackHistory ==
    [][/\ (view.route = "index" /\ event' = "link") =>
              (Front(routes') = routes /\ Top(routes').name = "about/index")
       /\ (view.route = "about/index" /\ event' = "back") =>
              (routes' = Front(routes) /\ view'.route = routes[Len(routes) - 1].name)
       /\ (event = "link" /\ view.route = "about/index" /\ event' = "back") =>
              view'.route = "index"
       /\ \/ routes' = routes
          \/ Front(routes') = routes
          \/ routes' = Front(routes)
          \/ Len(routes') = Len(routes) /\ Front(routes') = Front(routes)]_vars

C15_Witness ==
    /\ event = "back"
    /\ view.route = "index"
    /\ routes = InitialRoutes


\* C16: no navigation event ends in an error state: after every user event
\* enabled in a reachable state, a URL that matches no file included, the app
\* shows a screen of a route of its table or the framework's default visual;
\* no file of the app handles the unmatched case, and nothing but the back
\* action leads out of the default visual (no retry, no recovery).
C16_NoErrorState ==
    /\ view.kind \in {"screen", "default"}
    /\ view.kind = "default" <=> view.route = NotFoundRoute
    /\ view.kind = "screen" => \E f \in AppFiles : EntryOf(f).name = view.route
    /\ view.kind = "default" => view.texts = <<"Unmatched Route">> /\ view.links = NoLinks
    /\ \A f \in AppFiles : RouteName(RootChild(f)) # NotFoundRoute
    /\ \A r \in TapSuccessors(routes) \cup UrlSuccessors(routes) :
           /\ Render(r).kind \in {"screen", "default"}
           /\ Render(r).route \in Range(RootRouteNames)
    /\ \A u \in BrokenUrls :
           CanNavigate(routes, u) => Render(Navigate(routes, u)).kind = "default"

C16_Witness ==
    /\ event = "url"
    /\ view.route = NotFoundRoute
    /\ view.kind = "default"
    /\ Len(routes) > 1


\* C18: for each of the three tab icon functions and every color and size,
\* the glyph returned has the color passed in, the size 28 whatever size was
\* passed, and the tab's fixed name (home, globe, user-circle-o); the icons
\* on screen are these values for the props the tab bar passed.
C18_GlyphColorAndSize ==
    /\ \A t \in TabNames : \A c \in Colors : \A z \in Sizes :
           LET g == GlyphOf(TabBarIcon(t, c, z))
           IN  /\ g.type = "FontAwesome"
               /\ g.color = c
               /\ g.size = 28
               /\ g.name = GlyphName(t)
               /\ TabBarIcon(t, c, z) = TabBarIcon(t, c, IconSize)
    /\ \A t \in TabNames :
           icons[t].rendered =>
               /\ GlyphOf(icons[t].out).color = icons[t].props.color
               /\ GlyphOf(icons[t].out).size = 28
               /\ GlyphOf(icons[t].out).name = GlyphName(t)

C18_Witness ==
    /\ \A t \in TabNames : icons[t].rendered /\ icons[t].props.size = IconSize + SizeSpread
    /\ icons["aboutus"].props.focused
    /\ icons["aboutus"].props.color # icons["profile"].props.color
    /\ GlyphOf(icons["profile"].out).size = 28


====
